---- MODULE Spec2Model ----
(***************************************************************************)
(* es-modules-middleware (lib/index.js): resolvePath, transformJs and the  *)
(* two request handlers (the connect-style middleware and the Karma        *)
(* middleware factory).                                                    *)
(*                                                                         *)
(* Text (source text, specifiers, paths, urls, content types) is a         *)
(* sequence of one-character strings, so that the two regular expressions  *)
(* of transformJs and the path functions of node are computed character by *)
(* character, as the code computes them.                                   *)
(***************************************************************************)
EXTENDS Integers, Sequences, FiniteSets, TLC

\* ------------------------------------------------------------------------
\* Bounds of the model
\* ------------------------------------------------------------------------

\* the number of segments (statements, lines of other code) of a source text
MaxSegs == 2

\* how many times transformJs is applied again to its own output
MaxPasses == 2

\* ------------------------------------------------------------------------
\* Characters
\* ------------------------------------------------------------------------

Lower == {"a","b","c","d","e","f","g","h","i","j","k","l","m",
          "n","o","p","q","r","s","t","u","v","w","x","y","z"}

Upper == {"A","B","C","D","E","F","G","H","I","J","K","L","M",
          "N","O","P","Q","R","S","T","U","V","W","X","Y","Z"}

Digit == {"0","1","2","3","4","5","6","7","8","9"}

\* \w of a JavaScript regular expression
WordChar == Lower \cup Upper \cup Digit \cup {"_"}

\* \s of a JavaScript regular expression (the characters the texts here use)
Space == {" ", "\t", "\n", "\r", "\f"}

\* the line terminators before which $ matches under the m flag
LineEnd == {"\n", "\r"}

\* ["']
Quote == {"'", "\""}

\* [\t ]
Blank == {" ", "\t"}

\* [\{\*\w], the first character of a non-empty binding clause
PreStart == WordChar \cup {"{", "*"}

\* ------------------------------------------------------------------------
\* Strings: String.prototype.startsWith, slice, literals at a position
\* ------------------------------------------------------------------------

\* s.startsWith(p)
StartsWith(s, p) ==
    /\ Len(p) <= Len(s)
    /\ \A k \in 1..Len(p) : s[k] = p[k]

\* s.endsWith(p)
EndsWith(s, p) ==
    /\ Len(p) <= Len(s)
    /\ \A k \in 1..Len(p) : s[Len(s) - Len(p) + k] = p[k]

\* s.slice(n): s without its first n characters
Slice(s, n) == SubSeq(s, n + 1, Len(s))

\* the literal lit stands in s at position i
LitAt(s, i, lit) ==
    /\ i + Len(lit) - 1 <= Len(s)
    /\ \A k \in 1..Len(lit) : s[i + k - 1] = lit[k]

\* the first position j >= i of s whose character is not in C (Len(s)+1 if none):
\* where a greedy C* that starts at i stops
SkipWhile(s, i, C) ==
    CHOOSE j \in i..(Len(s) + 1) :
        /\ \A k \in i..(j - 1) : s[k] \in C
        /\ (j = Len(s) + 1 \/ s[j] \notin C)

\* the first position j >= i of s whose character is in C (Len(s)+1 if none):
\* where a greedy [^C]* that starts at i stops
SkipUntil(s, i, C) ==
    CHOOSE j \in i..(Len(s) + 1) :
        /\ \A k \in i..(j - 1) : s[k] \notin C
        /\ (j = Len(s) + 1 \/ s[j] \in C)

\* the one element of a set of one element. The({e(x) : x \in {v}}) is e with
\* x standing for the value of v.
The(S) == CHOOSE x \in S : TRUE

RECURSIVE Concat(_)
\* the concatenation of a sequence of texts
Concat(ss) == IF ss = <<>> THEN <<>> ELSE Head(ss) \o Concat(Tail(ss))

\* ------------------------------------------------------------------------
\* node's path module (POSIX)
\* ------------------------------------------------------------------------

RECURSIVE SplitAcc(_, _, _, _)
SplitAcc(p, i, cur, acc) ==
    IF i > Len(p) THEN Append(acc, cur)
    ELSE IF p[i] = "/" THEN SplitAcc(p, i + 1, <<>>, Append(acc, cur))
    ELSE SplitAcc(p, i + 1, Append(cur, p[i]), acc)

\* p.split('/'): the segments of p, the empty ones included
Split(p) == SplitAcc(p, 1, <<>>, <<>>)

RECURSIVE JoinSegs(_)
\* segs.join('/')
JoinSegs(segs) ==
    IF segs = <<>> THEN <<>>
    ELSE IF Len(segs) = 1 THEN segs[1]
    ELSE segs[1] \o <<"/">> \o JoinSegs(Tail(segs))

RECURSIVE NormalizeAcc(_, _, _)
NormalizeAcc(segs, allowAboveRoot, acc) ==
    IF segs = <<>> THEN acc
    ELSE LET s == Head(segs)
             rest == Tail(segs)
         IN IF s = <<>> \/ s = <<".">> THEN NormalizeAcc(rest, allowAboveRoot, acc)
            ELSE IF s = <<".", ".">> THEN
                IF acc # <<>> /\ acc[Len(acc)] # <<".", ".">>
                THEN NormalizeAcc(rest, allowAboveRoot, SubSeq(acc, 1, Len(acc) - 1))
                ELSE IF allowAboveRoot
                THEN NormalizeAcc(rest, allowAboveRoot, Append(acc, s))
                ELSE NormalizeAcc(rest, allowAboveRoot, acc)
            ELSE NormalizeAcc(rest, allowAboveRoot, Append(acc, s))

\* normalizeString: '.' and empty segments dropped, '..' resolved
NormalizeSegs(segs, allowAboveRoot) == NormalizeAcc(segs, allowAboveRoot, <<>>)

IsAbsolute(p) == Len(p) > 0 /\ p[1] = "/"

\* path.normalize(p)
PathNormalize(p) ==
    IF Len(p) = 0 THEN <<".">>
    ELSE The({ (IF IsAbsolute(p) THEN <<"/">> ELSE <<>>)
                 \o (IF body = <<>> /\ IsAbsolute(p) THEN <<>>
                     ELSE IF body = <<>> /\ p[Len(p)] = "/" THEN <<".", "/">>
                     ELSE IF body = <<>> THEN <<".">>
                     ELSE IF p[Len(p)] = "/" THEN body \o <<"/">>
                     ELSE body) :
               body \in {JoinSegs(NormalizeSegs(Split(p), ~IsAbsolute(p)))} })

\* path.join(a, b)
PathJoin(a, b) ==
    PathNormalize(IF Len(a) = 0 THEN b
                  ELSE IF Len(b) = 0 THEN a
                  ELSE a \o <<"/">> \o b)

\* the working directory of the server process
Cwd == <<"/", "r">>

\* path.resolve(p): absolute, normalized, without a trailing slash
PathResolve(p) ==
    LET full == IF IsAbsolute(p) THEN p ELSE Cwd \o <<"/">> \o p
    IN <<"/">> \o JoinSegs(NormalizeSegs(Split(full), FALSE))

\* path.resolve(a, b)
PathResolve2(a, b) ==
    PathResolve(IF IsAbsolute(b) THEN b
                ELSE IF Len(b) = 0 THEN a
                ELSE a \o <<"/">> \o b)

\* path.dirname(p)
PathDirname(p) ==
    IF Len(p) = 0 THEN <<".">>
    \* ends: the slashes at positions >= 2 that a character other than a slash
    \* follows
    ELSE The({ IF ends = {} THEN (IF p[1] = "/" THEN <<"/">> ELSE <<".">>)
               ELSE The({ IF p[1] = "/" /\ end = 2 THEN <<"/", "/">>
                          ELSE SubSeq(p, 1, end - 1) :
                          end \in {i \in ends : \A k \in ends : k <= i} }) :
               ends \in { {i \in 2..(Len(p) - 1) : p[i] = "/" /\ p[i + 1] # "/"} } })

\* the length of the longest common prefix of two sequences of segments
CommonLen(a, b) ==
    CHOOSE n \in 0..Len(a) :
        /\ n <= Len(b)
        /\ \A k \in 1..n : a[k] = b[k]
        /\ (n = Len(a) \/ n = Len(b) \/ a[n + 1] # b[n + 1])

\* path.relative(from, to)
PathRelative(from, to) ==
    The({ The({ JoinSegs([k \in 1..(Len(f) - n) |-> <<".", ".">>]
                           \o SubSeq(t, n + 1, Len(t))) :
                n \in {CommonLen(f, t)} }) :
          f \in {NormalizeSegs(Split(PathResolve(from)), FALSE)},
          t \in {NormalizeSegs(Split(PathResolve(to)), FALSE)} })


\* ------------------------------------------------------------------------
\* Names on disk
\* ------------------------------------------------------------------------

NodeModules == <<"n","o","d","e","_","m","o","d","u","l","e","s">>

PackageJson == <<"p","a","c","k","a","g","e",".","j","s","o","n">>

IndexJs == <<"i","n","d","e","x",".","j","s">>

IndexHtml == <<"i","n","d","e","x",".","h","t","m","l">>

ExtJs == <<".","j","s">>

\* the absolute path of the given segments
P(segs) == <<"/">> \o JoinSegs(segs)

\* a file name: a one-letter base name and an extension
F(base, ext) == <<base>> \o ext

\* /r/node_modules/<pkg>/<file>
InPkg(pkg, file) == P(<<<<"r">>, NodeModules, <<pkg>>, file>>)

\* package.json metadata; an absent field is the empty string (both are falsy)
Pkg(module, jsnext, main) ==
    [valid |-> TRUE, module |-> module, jsnext |-> jsnext, main |-> main]

\* a package.json that JSON.parse rejects
BadPkg == [valid |-> FALSE, module |-> <<>>, jsnext |-> <<>>, main |-> <<>>]

\* ------------------------------------------------------------------------
\* The filesystems the server may run over
\* ------------------------------------------------------------------------

\* the regular files of disk 1
Files1 ==
    { P(<<<<"r">>, F("a", ExtJs)>>),
      P(<<<<"r">>, F("h", ExtJs)>>),
      P(<<<<"r">>, <<".", "h">>, F("x", ExtJs)>>),
      P(<<<<"r">>, <<"s">>, F("b", ExtJs)>>),
      P(<<<<"r">>, <<"w">>, IndexHtml>>),
      P(<<<<"r">>, <<"v">>, IndexJs>>),
      P(<<<<"r">>, <<"v">>, IndexHtml>>),
      P(<<<<"r">>, <<"o">>, F("y", <<".","c","s","s">>)>>),
      P(<<<<"r">>, F("t", <<".","c","s","s">>)>>),
      P(<<<<"r">>, <<"u">>>>),
      InPkg("m", PackageJson), InPkg("m", F("e", ExtJs)),
      InPkg("m", F("n", ExtJs)), InPkg("m", F("c", ExtJs)),
      InPkg("j", PackageJson), InPkg("j", F("n", ExtJs)), InPkg("j", F("c", ExtJs)),
      InPkg("k", PackageJson), InPkg("k", F("c", ExtJs)),
      InPkg("d", PackageJson), InPkg("d", IndexJs),
      InPkg("q", PackageJson), InPkg("q", IndexJs) }

\* disk 2: no helper h.js, package m ships no ES-module entry, and a package
\* directory named .h is installed
Files2 ==
    (Files1 \ { P(<<<<"r">>, F("h", ExtJs)>>), InPkg("m", F("e", ExtJs)),
                InPkg("m", F("n", ExtJs)) })
    \cup { P(<<<<"r">>, NodeModules, <<".", "h">>, F("x", ExtJs)>>) }

Pkgs1 ==
    (InPkg("m", PackageJson) :> Pkg(F("e", ExtJs), F("n", ExtJs), F("c", ExtJs)))
    @@ (InPkg("j", PackageJson) :> Pkg(<<>>, F("n", ExtJs), F("c", ExtJs)))
    @@ (InPkg("k", PackageJson) :> Pkg(<<>>, <<>>, F("c", ExtJs)))
    @@ (InPkg("d", PackageJson) :> Pkg(<<>>, <<>>, <<>>))
    @@ (InPkg("q", PackageJson) :> BadPkg)

Pkgs2 ==
    (InPkg("m", PackageJson) :> Pkg(<<>>, <<>>, F("c", ExtJs))) @@ Pkgs1

\* symbolic links to directories
Links == { P(<<<<"r">>, <<"l">>>>) }

Disks ==
    <<[files |-> Files1, pkgs |-> Pkgs1, links |-> Links],
      [files |-> Files2, pkgs |-> Pkgs2, links |-> Links]>>

\* a regular file (fs.statSync(p).isFile())
isFile(d, p) == p \in d.files

\* a directory (fs.lstatSync(p).isDirectory()): an ancestor of a file
isDirectory(d, p) ==
    \/ p = <<"/">>
    \/ \E f \in d.files : StartsWith(f, p \o <<"/">>)

\* fs.existsSync(p): a file, a directory, or a link to a directory
existsSync(d, p) == isFile(d, p) \/ isDirectory(d, p) \/ p \in d.links

\* ------------------------------------------------------------------------
\* resolve.sync(url, {basedir, packageFilter}): node's module resolution
\* ------------------------------------------------------------------------

NotFound == [ok |-> FALSE, path |-> <<>>]

Found(p) == [ok |-> TRUE, path |-> p]

\* the first of two lookups that finds something (m || n)
OrElse(m, n) == IF m.ok THEN m ELSE n

\* a packageFilter that keeps main when the package has one
packageFilterMainFirst(pkg) ==
    IF pkg.main # <<>> THEN pkg.main
    ELSE IF pkg.module # <<>> THEN pkg.module
    ELSE pkg.jsnext

\* packageFilter: pkg.main = pkg.module || pkg['jsnext:main'] || pkg.main
packageFilter(pkg) ==
    IF pkg.module # <<>> THEN pkg.module
    ELSE IF pkg.jsnext # <<>> THEN pkg.jsnext
    ELSE pkg.main

\* x itself if it is a file, else x with the extension .js
loadAsFileSync(d, x) ==
    IF isFile(d, x) THEN Found(x)
    ELSE IF isFile(d, x \o ExtJs) THEN Found(x \o ExtJs)
    ELSE NotFound

RECURSIVE loadAsDirectorySync(_, _)
\* the entry of the package.json of directory x (after packageFilter), as a
\* file then as a directory; else the index file of x
loadAsDirectorySync(d, x) ==
    The({ IF isFile(d, pkgfile) /\ d.pkgs[pkgfile].valid
          THEN The({ IF main = <<>> THEN index
                     ELSE The({ OrElse(loadAsFileSync(d, target),
                                       OrElse(loadAsDirectorySync(d, target), index)) :
                                target \in {PathResolve2(x, main)} }) :
                     main \in { The({ IF main0 = <<".">> \/ main0 = <<".", "/">>
                                      THEN <<"i","n","d","e","x">> ELSE main0 :
                                      main0 \in {packageFilter(d.pkgs[pkgfile])} }) } })
          ELSE index :
          pkgfile \in {PathJoin(x, <<"/">> \o PackageJson)},
          index \in {loadAsFileSync(d, PathJoin(x, <<"/","i","n","d","e","x">>))} })

\* the node_modules directories searched from start: its own, then every
\* ancestor's up to the root
nodeModulesPaths(start) ==
    The({ [k \in 1..(Len(segs) + 1) |->
               P(SubSeq(segs, 1, Len(segs) + 1 - k) \o <<NodeModules>>)] :
          segs \in {NormalizeSegs(Split(start), FALSE)} })

RECURSIVE loadNodeModulesFrom(_, _, _, _)
loadNodeModulesFrom(d, x, dirs, k) ==
    IF k > Len(dirs) THEN NotFound
    ELSE The({ OrElse(IF isDirectory(d, PathDirname(cand))
                      THEN OrElse(loadAsFileSync(d, cand), loadAsDirectorySync(d, cand))
                      ELSE NotFound,
                      loadNodeModulesFrom(d, x, dirs, k + 1)) :
               cand \in {PathJoin(dirs[k], x)} })

\* x looked up in the node_modules directories of start and of its ancestors
loadNodeModulesSync(d, x, start) ==
    The({ loadNodeModulesFrom(d, x, dirs, 1) : dirs \in {nodeModulesPaths(start)} })

\* /^(?:\.\.?(?:\/|$)|\/)/.test(x): x is a path, not a package name
IsPathSpecifier(x) ==
    \/ x = <<".">>
    \/ x = <<".", ".">>
    \/ StartsWith(x, <<".", "/">>)
    \/ StartsWith(x, <<".", ".", "/">>)
    \/ StartsWith(x, <<"/">>)

\* resolve.sync(x, {basedir}): the absolute path of the module, or not found
\* (the exception MODULE_NOT_FOUND)
resolveSync(d, x, basedir) ==
    The({ IF IsPathSpecifier(x)
          THEN The({ OrElse(loadAsFileSync(d, res), loadAsDirectorySync(d, res)) :
                     res \in { IF x = <<".">> \/ x = <<".", ".">> \/ x[Len(x)] = "/"
                               THEN PathResolve2(absoluteStart, x) \o <<"/">>
                               ELSE PathResolve2(absoluteStart, x) } })
          ELSE loadNodeModulesSync(d, x, absoluteStart) :
          absoluteStart \in {PathResolve(basedir)} })

\* ------------------------------------------------------------------------
\* new URL(url)
\* ------------------------------------------------------------------------

\* the characters of a URL scheme after its first letter
SchemeChar == Lower \cup Upper \cup Digit \cup {"+", "-", "."}

\* the schemes whose URL needs a host
SpecialSchemes ==
    { <<"h","t","t","p">>, <<"h","t","t","p","s">>, <<"f","t","p">>,
      <<"w","s">>, <<"w","s","s">> }

\* new URL(url) does not throw: url has a scheme, and a host where the scheme
\* needs one
IsFullUrl(url) ==
    /\ Len(url) > 0
    /\ url[1] \in Lower \cup Upper
    /\ \E colon \in {SkipWhile(url, 1, SchemeChar)} :
          /\ colon <= Len(url)
          /\ url[colon] = ":"
          /\ (SubSeq(url, 1, colon - 1) \in SpecialSchemes
                => SkipWhile(url, colon + 1, {"/", "\\"}) <= Len(url))

\* ------------------------------------------------------------------------
\* resolvePath(filepath, url)
\* ------------------------------------------------------------------------

\* result.startsWith('.') ? result : './' + result
dotPrefix(result) ==
    IF StartsWith(result, <<".">>) THEN result ELSE <<".", "/">> \o result

\* resolvePath without its last line 'return url': a failure returns undefined
resolvePathCallNoFallback(d, filepath, url) ==
    IF IsFullUrl(url) THEN [out |-> url, effects |-> <<>>]
    ELSE The({ IF r.ok
               THEN [out |-> dotPrefix(PathRelative(PathDirname(filepath), r.path)),
                     effects |-> <<"resolve.sync">>]
               ELSE [out |-> <<"u","n","d","e","f","i","n","e","d">>,
                     effects |-> <<"resolve.sync", "console.error">>] :
               r \in {resolveSync(d, url, PathDirname(filepath))} })

\* resolvePath without its first try block: full urls are resolved as modules
resolvePathCallNoUrlCheck(d, filepath, url) ==
    The({ IF r.ok
          THEN [out |-> dotPrefix(PathRelative(PathDirname(filepath), r.path)),
                effects |-> <<"resolve.sync">>]
          ELSE [out |-> url, effects |-> <<"resolve.sync", "console.error">>] :
          r \in {resolveSync(d, url, PathDirname(filepath))} })

\* a call of resolvePath(filepath, url): the value it returns (out) and the
\* calls it makes on the way: resolve.sync unless url is a full url, and
\* console.error if resolve.sync throws
resolvePathCall(d, filepath, url) ==
    IF IsFullUrl(url) THEN [out |-> url, effects |-> <<>>]
    ELSE The({ IF r.ok
               THEN [out |-> dotPrefix(PathRelative(PathDirname(filepath), r.path)),
                     effects |-> <<"resolve.sync">>]
               ELSE [out |-> url, effects |-> <<"resolve.sync", "console.error">>] :
               r \in {resolveSync(d, url, PathDirname(filepath))} })

\* the value of resolvePath(filepath, url)
resolvePath(d, filepath, url) == resolvePathCall(d, filepath, url).out

\* ------------------------------------------------------------------------
\* transformJs(filepath, src): the two regular expressions and their replacers
\* ------------------------------------------------------------------------

kwImport == <<"i","m","p","o","r","t">>

kwExport == <<"e","x","p","o","r","t">>

kwFrom == <<"f","r","o","m">>

NoMatch == [ok |-> FALSE, pre |-> <<>>, url |-> <<>>, post |-> <<>>, end |-> 0]

\* ["']([^"']+)["'][\t ]*($|;|\/\/|\/\*) with the opening quote at q: the
\* specifier (from q + 1 to the next quote, at u2), the captured terminator
\* (at t, after the blanks) and the position after the match
matchTail(s, pre, q) ==
    The({ IF u2 = q + 1 \/ u2 > Len(s) THEN NoMatch
          ELSE The({ IF t > Len(s) \/ s[t] \in LineEnd
                     THEN [ok |-> TRUE, pre |-> pre, url |-> SubSeq(s, q + 1, u2 - 1),
                           post |-> <<>>, end |-> t]
                     ELSE IF s[t] = ";"
                     THEN [ok |-> TRUE, pre |-> pre, url |-> SubSeq(s, q + 1, u2 - 1),
                           post |-> <<";">>, end |-> t + 1]
                     ELSE IF LitAt(s, t, <<"/", "/">>) \/ LitAt(s, t, <<"/", "*">>)
                     THEN [ok |-> TRUE, pre |-> pre, url |-> SubSeq(s, q + 1, u2 - 1),
                           post |-> SubSeq(s, t, t + 1), end |-> t + 2]
                     ELSE NoMatch :
                     t \in {SkipWhile(s, u2 + 1, Blank)} }) :
          u2 \in {SkipUntil(s, q + 1, Quote)} })

\* /import\s+(|[\{\*\w][^"']*)["']([^"']+)["'][\t ]*($|;|\/\/|\/\*)/ at i:
\* the white space ends at j2; the first group is empty, or runs from j2 to
\* the first quote
matchImport(s, i) ==
    IF ~LitAt(s, i, kwImport) THEN NoMatch
    ELSE The({ IF j2 = i + Len(kwImport) \/ j2 > Len(s) THEN NoMatch
               ELSE IF s[j2] \notin Quote \cup PreStart THEN NoMatch
               ELSE The({ IF q > Len(s) THEN NoMatch
                          ELSE matchTail(s, SubSeq(s, j2, q - 1), q) :
                          q \in {SkipUntil(s, j2, Quote)} }) :
               j2 \in {SkipWhile(s, i + Len(kwImport), Space)} })

\* the last position from i on and before q whose character is no white space
\* (i - 1 if there is none)
lastNonSpace(s, i, q) ==
    The({ IF at = {} THEN i - 1 ELSE CHOOSE w \in at : \A w2 \in at : w2 <= w :
          at \in { {w \in i..(q - 1) : s[w] \notin Space} } })

\* /export\s+([\{\*\w][^"']*)\s*from\s*["']([^"']+)["'][\t ]*($|;|\/\/|\/\*)/
\* at i: the white space ends at j2, the first quote is at q, and 'from' stands
\* at f, with only white space between it and the quote. The first group is
\* greedy: it runs from j2 to f - 1, and so takes the white space that
\* precedes 'from' with it.
matchExport(s, i) ==
    IF ~LitAt(s, i, kwExport) THEN NoMatch
    ELSE The({ IF j2 = i + Len(kwExport) \/ j2 > Len(s) THEN NoMatch
               ELSE IF s[j2] \notin PreStart THEN NoMatch
               ELSE The({ IF q > Len(s) THEN NoMatch
                          ELSE The({ IF f > j2 /\ LitAt(s, f, kwFrom)
                                     THEN matchTail(s, SubSeq(s, j2, f - 1), q)
                                     ELSE NoMatch :
                                     f \in {lastNonSpace(s, j2, q) - Len(kwFrom) + 1} }) :
                          q \in {SkipUntil(s, j2, Quote)} }) :
               j2 \in {SkipWhile(s, i + Len(kwExport), Space)} })

\* `import ${pre}'${resolvePath(filepath, url)}'${post}`
importReplacer(d, filepath, m) ==
    kwImport \o <<" ">> \o m.pre \o <<"'">> \o resolvePath(d, filepath, m.url)
        \o <<"'">> \o m.post

\* `export ${pre} from '${resolvePath(filepath, url)}'${post}`
exportReplacer(d, filepath, m) ==
    kwExport \o <<" ">> \o m.pre \o <<" ">> \o kwFrom \o <<" ", "'">>
        \o resolvePath(d, filepath, m.url) \o <<"'">> \o m.post

\* the first position >= i at which the import expression matches (0 if none)
nextImport(s, i) ==
    The({ IF at = {} THEN 0 ELSE CHOOSE k \in at : \A k2 \in at : k <= k2 :
          at \in { {k \in i..Len(s) : matchImport(s, k).ok} } })

\* the first position >= i at which the export expression matches (0 if none)
nextExport(s, i) ==
    The({ IF at = {} THEN 0 ELSE CHOOSE k \in at : \A k2 \in at : k <= k2 :
          at \in { {k \in i..Len(s) : matchExport(s, k).ok} } })

RECURSIVE replaceImports(_, _, _, _)
\* src.replace(/import.../gm, replacer) from position i on: the matches are
\* taken from left to right and do not overlap; the text between them is kept
replaceImports(d, filepath, s, i) ==
    The({ IF k = 0 THEN SubSeq(s, i, Len(s))
          ELSE The({ SubSeq(s, i, k - 1) \o importReplacer(d, filepath, m)
                         \o replaceImports(d, filepath, s, m.end) :
                     m \in {matchImport(s, k)} }) :
          k \in {nextImport(s, i)} })

RECURSIVE replaceExports(_, _, _, _)
\* src.replace(/export.../gm, replacer) from position i on
replaceExports(d, filepath, s, i) ==
    The({ IF k = 0 THEN SubSeq(s, i, Len(s))
          ELSE The({ SubSeq(s, i, k - 1) \o exportReplacer(d, filepath, m)
                         \o replaceExports(d, filepath, s, m.end) :
                     m \in {matchExport(s, k)} }) :
          k \in {nextExport(s, i)} })

transformJs(d, filepath, src) ==
    The({ replaceExports(d, filepath, s1, 1) :
          s1 \in {replaceImports(d, filepath, src, 1)} })

\* ------------------------------------------------------------------------
\* Inputs: source files, specifiers, source text
\* ------------------------------------------------------------------------

\* the files whose text is rewritten
SourceFiles ==
    { P(<<<<"r">>, F("a", ExtJs)>>),
      P(<<<<"r">>, <<"s">>, F("b", ExtJs)>>),
      InPkg("k", F("c", ExtJs)) }

\* a package with module, jsnext:main and main: 'm'
uM ==
    <<"m">>

\* a package with jsnext:main and main: 'j'
uJ ==
    <<"j">>

\* a package with main only: 'k'
uK ==
    <<"k">>

\* a package without entry fields: 'd'
uD ==
    <<"d">>

\* a package whose package.json does not parse: 'q'
uQ ==
    <<"q">>

\* a file of a package, without its extension: 'm/c'
uSub ==
    <<"m","/","c">>

\* a relative specifier: './h.js'
uRel ==
    <<".","/","h",".","j","s">>

\* a relative specifier without its extension: './h'
uRelNoExt ==
    <<".","/","h">>

\* a relative specifier that leaves the directory: '../h.js'
uUp ==
    <<".",".","/","h",".","j","s">>

\* a relative specifier into a directory whose name starts with a dot: './.h/x.js'
uHidden ==
    <<".","/",".","h","/","x",".","j","s">>

\* a package that is not installed: 'z'
uMissing ==
    <<"z">>

\* a relative specifier of a file that does not exist: './z.js'
uMissingRel ==
    <<".","/","z",".","j","s">>

\* a full url: 'http://c/m.js'
uUrl ==
    <<"h","t","t","p",":","/","/","c","/","m",".","j","s">>

\* a full url of a scheme that needs no host: 'x:m'
uData ==
    <<"x",":","m">>

Specifiers ==
    { uM, uJ, uK, uD, uQ, uSub, uRel, uRelNoExt, uUp, uHidden, uMissing, uMissingRel, uUrl, uData }

\* a segment of source text: import {x} from 'm';\n
sImport ==
    <<"i","m","p","o","r","t"," ","{","x","}"," ","f","r","o","m"," ","'","m",
      "'",";","\n">>

\* a segment of source text: import "./h"\n
sImportBare ==
    <<"i","m","p","o","r","t"," ","\"",".","/","h","\"","\n">>

\* a segment of source text: import x from 'z'; // c\n
sImportFail ==
    <<"i","m","p","o","r","t"," ","x"," ","f","r","o","m"," ","'","z","'",";",
      " ","/","/"," ","c","\n">>

\* a segment of source text: import a from 'http://c/m.js';\n
sImportUrl ==
    <<"i","m","p","o","r","t"," ","a"," ","f","r","o","m"," ","'","h","t","t",
      "p",":","/","/","c","/","m",".","j","s","'",";","\n">>

\* a segment of source text: import\t{ x }  from './.h/x.js'\t;\n
sImportHidden ==
    <<"i","m","p","o","r","t","\t","{"," ","x"," ","}"," "," ","f","r","o",
      "m"," ","'",".","/",".","h","/","x",".","j","s","'","\t",";","\n">>

\* a segment of source text: export {x} from 'j';\n
sExport ==
    <<"e","x","p","o","r","t"," ","{","x","}"," ","f","r","o","m"," ","'","j",
      "'",";","\n">>

\* a segment of source text: export * from "./z.js"  /* c */\n
sExportFail ==
    <<"e","x","p","o","r","t"," ","*"," ","f","r","o","m"," ","\"",".","/",
      "z",".","j","s","\""," "," ","/","*"," ","c"," ","*","/","\n">>

\* a segment of source text: const a = 1;\n
sCode ==
    <<"c","o","n","s","t"," ","a"," ","="," ","1",";","\n">>

Segments ==
    { sImport, sImportBare, sImportFail, sImportUrl, sImportHidden, sExport, sExportFail, sCode }

\* the source texts: up to MaxSegs segments, one after the other
SegLists == UNION { [1..n -> Segments] : n \in 0..MaxSegs }

\* ------------------------------------------------------------------------
\* Requests, content types, file contents
\* ------------------------------------------------------------------------

MimeJs == <<"a","p","p","l","i","c","a","t","i","o","n","/","j","a","v","a","s","c","r","i","p","t">>

MimeCss == <<"t","e","x","t","/","c","s","s">>

MimeHtml == <<"t","e","x","t","/","h","t","m","l">>

OctetStream == <<"a","p","p","l","i","c","a","t","i","o","n","/","o","c","t","e","t","-","s","t","r","e","a","m">>

TextJavascript == <<"t","e","x","t","/","j","a","v","a","s","c","r","i","p","t">>

\* mime.getType(path): the type of the extension of path, or null (the empty
\* text) when it has none that is known
mimeGetType(path) ==
    IF EndsWith(path, ExtJs) THEN MimeJs
    ELSE IF EndsWith(path, <<".","c","s","s">>) THEN MimeCss
    ELSE IF EndsWith(path, <<".","h","t","m","l">>) THEN MimeHtml
    ELSE <<>>

\* the text of /r/a.js
ContentA == sImport \o sExport \o sImportFail

\* the bytes of every other file
ContentOther == sImportBare

\* fs.readFileSync(path), as bytes or decoded: the texts here are ASCII
readFileSync(path) ==
    IF path = P(<<<<"r">>, F("a", ExtJs)>>) THEN ContentA ELSE ContentOther

\* the request paths (req.originalUrl)
Urls ==
    { <<"/","a",".","j","s">>, <<"/","t",".","c","s","s">>, <<"/","u">>, <<"/","w">>, <<"/","v","/">>, <<"/","s">>, <<"/","z",".","j","s">>, <<"/","l">>,
      <<"/","n","o","d","e","_","m","o","d","u","l","e","s","/","k","/","c",".","j","s">>, <<"/","n","o","d","e","_","m","o","d","u","l","e","s","/","d">>,
      <<"/","b","a","s","e","/","a",".","j","s">>, <<"/","b","a","s","e","/","v">>, <<"/","b","a","s","e","/","z">>, <<"/","k","a","r","m","a",".","j","s">> }

\* the mount points of the handler: req.url is req.originalUrl without it
Mounts == { <<>>, <<"/","b","a","s","e">> }

\* the requests: the handler is mounted at the root, or at /base
Requests ==
    UNION { { [originalUrl |-> u, url |-> Slice(u, Len(m))] :
                m \in {mm \in Mounts : StartsWith(u, mm \o <<"/">>)} } :
            u \in Urls }

\* the default of the parameter indexFiles
DefaultIndexFiles == <<IndexHtml, IndexJs>>

IndexFileLists == { DefaultIndexFiles, <<IndexJs>> }

\* what the middleware is constructed with: a base path (a string), or a
\* configuration object, with or without a 'paths' property
StringConfig == [type |-> "string", path |-> <<"/", "r">>, paths |-> FALSE]

PathsConfig == [type |-> "object", path |-> <<>>, paths |-> TRUE]

EmptyConfig == [type |-> "object", path |-> <<>>, paths |-> FALSE]

Configs == { StringConfig, PathsConfig, EmptyConfig }

\* Karma injects config.basePath, a string; its configuration may or may not
\* have esModulesMiddleware.paths
KarmaConfigs ==
    { [type |-> "string", path |-> <<"/", "r">>, paths |-> b] : b \in BOOLEAN }

NoHandler ==
    [kind |-> "none", basePath |-> EmptyConfig, indexFiles |-> <<>>]

\* ------------------------------------------------------------------------
\* The request handlers
\* ------------------------------------------------------------------------

\* what a handler did with a request: the path it resolved the request to
\* (hasPath), the calls it made on res and next, in order, and whether it
\* ended by throwing
Outcome(hasPath, path, calls, threw) ==
    [hasPath |-> hasPath, path |-> path, calls |-> calls, threw |-> threw]

CallNext == [call |-> "next", arg |-> <<>>]

CallSetHeader(type) == [call |-> "setHeader", arg |-> type]

CallEnd(body) == [call |-> "end", arg |-> body]

CallRedirect(location) == [call |-> "redirect", arg |-> location]

\* filetype.startsWith('text/javascript') ||
\* filetype.startsWith('application/javascript')
isJavascript(filetype) ==
    StartsWith(filetype, TextJavascript) \/ StartsWith(filetype, MimeJs)

\* mime.getType(resolvedPath) || 'application/octet-stream'
fileType(resolvedPath) ==
    IF mimeGetType(resolvedPath) # <<>> THEN mimeGetType(resolvedPath)
    ELSE OctetStream

\* a body that is the file as it is on disk
bodyUntransformed(d, resolvedPath) == readFileSync(resolvedPath)

\* the body of a file that is served
body(d, resolvedPath) ==
    IF isJavascript(fileType(resolvedPath))
    THEN transformJs(d, resolvedPath, readFileSync(resolvedPath))
    ELSE readFileSync(resolvedPath)

\* the index files of a directory, as positions in indexFiles
indexHits(d, resolvedPath, indexFiles) ==
    {i \in 1..Len(indexFiles) : existsSync(d, PathJoin(resolvedPath, indexFiles[i]))}

\* a handler without index files: every directory is passed on
serveDirectoryNoIndex(d, originalUrl, resolvedPath, indexFiles) == <<CallNext>>

\* a directory: redirect to its first index file, or pass the request on
serveDirectory(d, originalUrl, resolvedPath, indexFiles) ==
    The({ IF hits # {}
          THEN <<CallRedirect(PathJoin(originalUrl,
                     indexFiles[CHOOSE k \in hits : \A k2 \in hits : k <= k2]))>>
          ELSE <<CallNext>> :
          hits \in {indexHits(d, resolvedPath, indexFiles)} })

\* serve without the last line 'next()' of the handlers
serveNoFallThrough(d, originalUrl, resolvedPath, indexFiles) ==
    IF existsSync(d, resolvedPath)
    THEN IF isDirectory(d, resolvedPath)
         THEN Outcome(TRUE, resolvedPath,
                      serveDirectory(d, originalUrl, resolvedPath, indexFiles), FALSE)
         ELSE IF resolvedPath \in d.links
         THEN Outcome(TRUE, resolvedPath, <<CallSetHeader(fileType(resolvedPath))>>, TRUE)
         ELSE Outcome(TRUE, resolvedPath,
                      <<CallSetHeader(fileType(resolvedPath)),
                        CallEnd(body(d, resolvedPath))>>, FALSE)
    ELSE Outcome(TRUE, resolvedPath, <<>>, FALSE)

\* both handlers from 'if (fs.existsSync(resolvedPath))' on
serve(d, originalUrl, resolvedPath, indexFiles) ==
    IF existsSync(d, resolvedPath)
    THEN IF isDirectory(d, resolvedPath)
         THEN Outcome(TRUE, resolvedPath,
                      serveDirectory(d, originalUrl, resolvedPath, indexFiles), FALSE)
         ELSE IF resolvedPath \in d.links
         \* lstat does not follow the link, readFileSync does: EISDIR
         THEN Outcome(TRUE, resolvedPath, <<CallSetHeader(fileType(resolvedPath))>>, TRUE)
         ELSE Outcome(TRUE, resolvedPath,
                      <<CallSetHeader(fileType(resolvedPath)),
                        CallEnd(body(d, resolvedPath))>>, FALSE)
    ELSE Outcome(TRUE, resolvedPath, <<CallNext>>, FALSE)

\* the handler that middleware(basePath, indexFiles) returns
middleware(d, h, r) ==
    IF h.basePath.type # "string"
    \* path.join throws a TypeError for an argument that is no string
    THEN Outcome(FALSE, <<>>, <<>>, TRUE)
    ELSE The({ IF Len(resolvedPath) < 1
               THEN Outcome(TRUE, resolvedPath, <<CallNext>>, FALSE)
               ELSE serve(d, r.originalUrl, resolvedPath, h.indexFiles) :
               resolvedPath \in
                 { PathResolve(PathJoin(h.basePath.path,
                      IF StartsWith(r.originalUrl, <<"/">> \o NodeModules \o <<"/">>)
                      THEN Slice(r.originalUrl, 1) ELSE r.originalUrl)) } })

BasePrefix == <<"/","b","a","s","e","/">>

\* the handler that EsModulesMiddlewareFactory(basePath, indexFiles) returns
EsModulesMiddlewareFactory(d, h, r) ==
    IF /\ ~StartsWith(r.url, BasePrefix)
       /\ ~StartsWith(r.url, <<"/">> \o NodeModules \o <<"/">>)
    THEN Outcome(FALSE, <<>>, <<CallNext>>, FALSE)
    ELSE IF StartsWith(r.originalUrl, BasePrefix) /\ h.basePath.type # "string"
    THEN Outcome(FALSE, <<>>, <<>>, TRUE)
    ELSE The({ IF Len(resolvedPath) < 1
               THEN Outcome(TRUE, resolvedPath, <<CallNext>>, FALSE)
               ELSE serve(d, r.originalUrl, resolvedPath, h.indexFiles) :
               resolvedPath \in
                 { PathResolve(
                      IF StartsWith(r.originalUrl, BasePrefix)
                      THEN PathJoin(h.basePath.path,
                                    Slice(r.originalUrl, Len(BasePrefix)))
                      ELSE Slice(r.originalUrl, 1)) } })

\* ------------------------------------------------------------------------
\* State
\* ------------------------------------------------------------------------

VARIABLES
    disk,       \* the filesystem the process runs over (an index of Disks)
    op,         \* the last call: "idle", "resolvePath", "transformJs"
    filepath,   \* its argument filepath
    url,        \* resolvePath: its argument url
    segs,       \* transformJs: the segments its argument src was made of
    src,        \* transformJs: its argument src
    out,        \* the value the call returned
    pass,       \* transformJs: how many times it was applied, each time to
                \* the text it returned before
    effects,    \* resolvePath: resolve.sync and console.error calls it made
    handler,    \* the handler constructed, with what it was constructed from
    req,        \* the last request the handler was called with
    res         \* what the handler did with it

vars == <<disk, op, filepath, url, segs, src, out, pass, effects, handler, req, res>>

rewriteVars == <<op, filepath, url, segs, src, out, pass, effects>>

serveVars == <<handler, req, res>>

NoRequest == [originalUrl |-> <<>>, url |-> <<>>]

NoOutcome == Outcome(FALSE, <<>>, <<>>, FALSE)

Init ==
    /\ disk \in 1..Len(Disks)
    /\ op = "idle"
    /\ filepath = <<>>
    /\ url = <<>>
    /\ segs = <<>>
    /\ src = <<>>
    /\ out = <<>>
    /\ pass = 0
    /\ effects = <<>>
    /\ handler = NoHandler
    /\ req = NoRequest
    /\ res = NoOutcome

\* ------------------------------------------------------------------------
\* Actions
\* ------------------------------------------------------------------------

\* resolvePath(f, u)
ResolvePath(f, u) ==
    /\ op = "idle"
    /\ op' = "resolvePath"
    /\ filepath' = f
    /\ url' = u
    /\ \E c \in {resolvePathCall(Disks[disk], f, u)} :
          /\ out' = c.out
          /\ effects' = c.effects
    /\ UNCHANGED <<disk, segs, src, pass, serveVars>>

\* transformJs(f, the text of ss)
TransformJs(f, ss) ==
    /\ op = "idle"
    /\ op' = "transformJs"
    /\ filepath' = f
    /\ segs' = ss
    /\ \E s \in {Concat(ss)} :
          /\ src' = s
          /\ out' = transformJs(Disks[disk], f, s)
    /\ pass' = 1
    /\ UNCHANGED <<disk, url, effects, serveVars>>

\* transformJs(filepath, the text transformJs returned)
TransformAgain ==
    /\ op = "transformJs"
    /\ pass <= MaxPasses
    /\ src' = out
    /\ segs' = <<out>>
    /\ out' = transformJs(Disks[disk], filepath, out)
    /\ pass' = pass + 1
    /\ UNCHANGED <<disk, op, filepath, url, effects, serveVars>>

\* middleware(config, indexFiles): returns the handler, whatever config is
ConstructMiddleware(config, indexFiles) ==
    /\ handler = NoHandler
    /\ handler' = [kind |-> "connect", basePath |-> config, indexFiles |-> indexFiles]
    /\ UNCHANGED <<disk, rewriteVars, req, res>>

\* EsModulesMiddlewareFactory(config.basePath, indexFiles), by Karma's injector
ConstructFactory(config, indexFiles) ==
    /\ handler = NoHandler
    /\ handler' = [kind |-> "karma", basePath |-> config, indexFiles |-> indexFiles]
    /\ UNCHANGED <<disk, rewriteVars, req, res>>

\* the connect handler is called with request r
HandleMiddleware(r) ==
    /\ handler.kind = "connect"
    /\ req' = r
    /\ res' = middleware(Disks[disk], handler, r)
    /\ UNCHANGED <<disk, rewriteVars, handler>>

\* the Karma handler is called with request r
HandleFactory(r) ==
    /\ handler.kind = "karma"
    /\ req' = r
    /\ res' = EsModulesMiddlewareFactory(Disks[disk], handler, r)
    /\ UNCHANGED <<disk, rewriteVars, handler>>

NextRewrite ==
    \/ \E f \in SourceFiles, u \in Specifiers : ResolvePath(f, u)
    \/ \E f \in SourceFiles, ss \in SegLists : TransformJs(f, ss)
    \/ TransformAgain

NextServe ==
    \/ \E c \in Configs, ix \in IndexFileLists : ConstructMiddleware(c, ix)
    \/ \E c \in KarmaConfigs, ix \in IndexFileLists : ConstructFactory(c, ix)
    \/ \E r \in Requests : HandleMiddleware(r)
    \/ \E r \in Requests : HandleFactory(r)

\* the rewriter: resolvePath and transformJs applied to the inputs
SpecRewrite == Init /\ [][NextRewrite]_vars

\* the server: a handler is constructed, then called with requests
SpecServe == Init /\ [][NextServe]_vars

\* ------------------------------------------------------------------------
\* Properties of the rewriter
\* ------------------------------------------------------------------------

\* the disk of the run
D == Disks[disk]

\* the directory of the file that is rewritten
dir == PathDirname(filepath)

\* the import or export statement a text begins with
statement(s) ==
    IF matchImport(s, 1).ok THEN matchImport(s, 1) ELSE matchExport(s, 1)

\* a text without any statement that transformJs rewrites
plain(s) == nextImport(s, 1) = 0 /\ nextExport(s, 1) = 0

\* a text that begins with a statement whose specifier does not resolve
fails(s) ==
    /\ statement(s).ok
    /\ ~IsFullUrl(statement(s).url)
    /\ ~resolveSync(D, statement(s).url, dir).ok

\* a text that begins with a statement whose specifier resolves to a module
resolves(s) ==
    /\ statement(s).ok
    /\ ~IsFullUrl(statement(s).url)
    /\ resolveSync(D, statement(s).url, dir).ok

\* ss without its k-th element
Without(ss, k) == [j \in 1..(Len(ss) - 1) |-> IF j < k THEN ss[j] ELSE ss[j + 1]]

\* each text of ss rewritten on its own
pieces(ss) == [k \in DOMAIN ss |-> transformJs(D, filepath, ss[k])]

\* a first application of transformJs has returned
transformed == op = "transformJs" /\ pass = 1

\* C1: applying transformJs to its own output changes nothing: for every
\* source text s, import statements and export ... from statements alike,
\* transformJs(transformJs(s)) = transformJs(s)
C1_Idempotent ==
    (op = "transformJs" /\ pass >= 2) => out = src

\* C2: a specifier that resolves to a module is rewritten to a relative
\* path that begins with './' or '../', never to an absolute path and never
\* to a bare name, and the path leads from the directory of the source file
\* to the module
C2_RelativeSpecifier ==
    (op = "resolvePath" /\ effects = <<"resolve.sync">>) =>
        /\ StartsWith(out, <<".", "/">>) \/ StartsWith(out, <<".", ".", "/">>)
        /\ ~IsAbsolute(out)
        /\ PathResolve2(dir, out) = resolveSync(D, url, dir).path

\* C3: a statement whose specifier does not resolve is left with the same
\* specifier and the same text after it, text without statements is left
\* as it is, and every other statement is rewritten as it is rewritten on
\* its own and as it is rewritten when the failing statement is absent
C3_FailureIsLocal ==
    (transformed /\ \E k \in DOMAIN segs : fails(segs[k])) =>
        /\ out = Concat(pieces(segs))
        /\ \A k \in DOMAIN segs :
              /\ plain(segs[k]) => pieces(segs)[k] = segs[k]
              /\ fails(segs[k]) =>
                    /\ statement(pieces(segs)[k]).ok
                    /\ statement(pieces(segs)[k]).url = statement(segs[k]).url
                    /\ Slice(pieces(segs)[k], statement(pieces(segs)[k]).end - 1)
                         = Slice(segs[k], statement(segs[k]).end - 1)
                    /\ transformJs(D, filepath, Concat(Without(segs, k)))
                         = Concat(Without(pieces(segs), k))

\* a failing statement next to a statement that is rewritten
C3_Witness ==
    /\ transformed
    /\ Len(segs) = 2
    /\ fails(segs[1])
    /\ resolves(segs[2])
    /\ pieces(segs)[2] # segs[2]
    /\ out = pieces(segs)[1] \o pieces(segs)[2]

\* C4: a specifier that parses as a full url is returned as it is, without
\* a call of resolve.sync, and the statement that holds it keeps it
C4_UrlUntouched ==
    /\ (op = "resolvePath" /\ IsFullUrl(url)) =>
          out = url /\ effects = <<>>
    /\ (transformed /\ Len(segs) = 1 /\ statement(src).ok
          /\ IsFullUrl(statement(src).url)) =>
          /\ statement(out).ok
          /\ statement(out).url = statement(src).url

\* resolvePath has returned a full url
C4_Witness ==
    /\ op = "resolvePath"
    /\ url = uUrl
    /\ out = uUrl
    /\ effects = <<>>

\* C5: the rewritten form of a relative specifier, resolved again from the
\* same file, names the file the specifier named
C5_RoundTrip ==
    (/\ op = "resolvePath"
     /\ StartsWith(url, <<".", "/">>) \/ StartsWith(url, <<".", ".", "/">>)
     /\ effects = <<"resolve.sync">>) =>
        resolveSync(D, out, dir) = resolveSync(D, url, dir)

\* the directory of the package that a bare specifier names
packageDir == The({ p \in { n \o <<"/">> \o url : n \in
                            { nodeModulesPaths(dir)[k] : k \in DOMAIN nodeModulesPaths(dir) } } :
                    isDirectory(D, p) })

\* the file that the rewritten specifier names
target == PathResolve2(dir, out)

\* C6: the entry of a package is its module field, else its jsnext:main
\* field, else its main field, else index.js
C6_EntryPreference ==
    (/\ op = "resolvePath"
     /\ url \in {uM, uJ, uK, uD}
     /\ effects = <<"resolve.sync">>) =>
        \E pkg \in {D.pkgs[packageDir \o <<"/">> \o PackageJson]} :
            /\ (pkg.module # <<>> /\ isFile(D, packageDir \o <<"/">> \o pkg.module))
                  => target = packageDir \o <<"/">> \o pkg.module
            /\ (pkg.module = <<>> /\ pkg.jsnext # <<>>
                  /\ isFile(D, packageDir \o <<"/">> \o pkg.jsnext))
                  => target = packageDir \o <<"/">> \o pkg.jsnext
            /\ (pkg.module = <<>> /\ pkg.jsnext = <<>> /\ pkg.main # <<>>
                  /\ isFile(D, packageDir \o <<"/">> \o pkg.main))
                  => target = packageDir \o <<"/">> \o pkg.main
            /\ (pkg.module = <<>> /\ pkg.jsnext = <<>> /\ pkg.main = <<>>)
                  => target = packageDir \o <<"/">> \o IndexJs

\* a package with a module field and a main field resolves to its module
C6_Witness ==
    /\ op = "resolvePath"
    /\ url = uM
    /\ D.pkgs[packageDir \o <<"/">> \o PackageJson].module # <<>>
    /\ D.pkgs[packageDir \o <<"/">> \o PackageJson].main # <<>>
    /\ target = packageDir \o <<"/">> \o D.pkgs[packageDir \o <<"/">> \o PackageJson].module

\* ------------------------------------------------------------------------
\* Properties of the handlers
\* ------------------------------------------------------------------------

\* a handler has been called
handled == req # NoRequest

\* the positions of the calls of one function on the response
callsOf(name) == { i \in DOMAIN res.calls : res.calls[i].call = name }

\* the request led to a directory
toDirectory == handled /\ res.hasPath /\ isDirectory(D, res.path)

C8_MissingDeclined ==
    (handled /\ res.hasPath /\ ~existsSync(D, res.path)) =>
        res.calls = <<CallNext>> /\ ~res.threw

\* a request for a missing file under the root has been declined
C8_Witness ==
    /\ handled
    /\ res.hasPath
    /\ Len(res.path) > 0
    /\ ~existsSync(D, res.path)
    /\ res.calls = <<CallNext>>

\* the type the extension of the served file stands for
expectedType == IF mimeGetType(res.path) = <<>> THEN OctetStream
                ELSE mimeGetType(res.path)

\* the body that goes with the type
expectedBody ==
    IF StartsWith(expectedType, TextJavascript) \/ StartsWith(expectedType, MimeJs)
    THEN transformJs(D, res.path, readFileSync(res.path))
    ELSE readFileSync(res.path)

\* C9: every request the handler terminates has its Content-Type set
\* before the body, and the body is the rewritten text exactly for
\* JavaScript types
C9_TypedResponse ==
    (handled /\ (callsOf("end") # {} \/ callsOf("redirect") # {})) =>
        res.calls = <<CallSetHeader(expectedType), CallEnd(expectedBody)>>

\* C9, as the handlers behave: every body is preceded by its Content-Type
\* and is the rewritten text exactly for JavaScript types; the one other
\* way a request terminates is the redirect to an index file
C9_TypedBody ==
    /\ (handled /\ callsOf("end") # {}) =>
          res.calls = <<CallSetHeader(expectedType), CallEnd(expectedBody)>>
    /\ (handled /\ callsOf("end") = {} /\ ~res.threw) =>
          \/ res.calls = <<CallNext>>
          \/ toDirectory /\ Len(res.calls) = 1 /\ callsOf("redirect") = {1}

\* a JavaScript file has been served rewritten
C9_Witness ==
    /\ handled
    /\ Len(res.calls) = 2
    /\ res.calls[1] = CallSetHeader(MimeJs)
    /\ res.calls[2].call = "end"
    /\ res.calls[2].arg # readFileSync(res.path)
    /\ res.calls[2].arg = transformJs(D, res.path, readFileSync(res.path))

\* C10: a handler is only constructed from a configuration that has
\* 'paths', so no request is processed under a configuration without it
C10_PathsRequired ==
    /\ handler # NoHandler => handler.basePath.paths
    /\ handled => handler.basePath.paths

====
